---- MODULE Spec2Model ----
(***************************************************************************)
(* The client-side analytics pipeline of the resume site                   *)
(* (frontend/assets/js/analytics.js): the AnalyticsManager session object, *)
(* its DOM listeners and timers, the batched flush to the collector and    *)
(* the global enable/disable surface; with the navigation links and the   *)
(* trackEvent wrapper of main.js and Storage.get of utils.js; and the     *)
(* chat widget (frontend/assets/js/chatbot.js): its mode toggle, message   *)
(* exchange, welcome sequence, panel display and resize handle.            *)
(*                                                                         *)
(* An AnalyticsManager instance is a record; the listeners and methods of  *)
(* the class are operators from an instance record to the instance record  *)
(* after the call, so that a handler that calls trackEvent several times   *)
(* (and through it sendAnalytics) is one composition.  The fields log,     *)
(* acked, calls, owed, disabledAt, scrollSamples, mouseSamples, settled    *)
(* and typed of an                                                         *)
(* instance and the field seq of an event are history fields: the code     *)
(* has no such fields, they record what the code did so that properties    *)
(* can speak about it.                                                     *)
(*   log         every trackEvent call: the event, the queue length after  *)
(*               the push, the collector calls it made and their body      *)
(*   acked       the bodies of the collector calls answered 2xx            *)
(*   calls       the number of collector calls made                        *)
(*   owed        since the last failed flush: its events and those         *)
(*               recorded after it, until a flush succeeds                 *)
(*   disabledAt  Len(log) and calls when disableAnalytics() returned       *)
(*   scrollSamples, mouseSamples   the positions trackScrollDepth and      *)
(*               trackMousePosition were run on, in order                  *)
(*   settled     how each collector call ended and how the promise of its  *)
(*               sendAnalytics settled                                     *)
(*   typed       the element and text of each 'input' event handled        *)
(*                                                                         *)
(* Time is Date.now() in milliseconds.  A timer is the time it is due at   *)
(* (NoTimer when nothing is scheduled); its callback runs when the clock   *)
(* reaches that time, before any other task.                               *)
(***************************************************************************)
EXTENDS Integers, Sequences, FiniteSets, TLC

VARIABLES
    localStorage,   \* value stored under 'analytics_enabled' (NoKey when absent)
    page,           \* "loading" | "ready" | "unloaded"
    loadFlag,       \* what DOMContentLoaded read from localStorage (history)
    analytics,      \* the global `analytics`: 0 for null, else an index of sessions
    sessions,       \* every AnalyticsManager constructed so far, in order
    now,            \* Date.now(), in milliseconds since the page was opened
    scrollY,        \* window.scrollY
    enableCalled,   \* enableAnalytics() has been called since the page was opened (history)
    lastInput,      \* when the last qualifying input event was dispatched (history)
    limits,         \* the bounds of the run, fixed by the specification's initial condition
    currentSection, \* main.js: the section shown (`let currentSection = 'home'`)
    chat            \* chatbot.js: the chat widget (NoChatbot on a page without it)

vars == <<localStorage, page, loadFlag, analytics, sessions, now, scrollY,
          enableCalled, lastInput, limits, currentSection, chat>>

----------------------------------------------------------------------------
(* Bounds of the model *)

MaxLog == 11           \* Spec: events one session records
PrivacyLog == 3        \* SpecPrivacy: events one session records
MaxInstances == 2      \* SpecPrivacy: AnalyticsManager objects constructed
SessionTicks == 12     \* SpecSession: length of the run, in ping intervals
ScrollTicks == 8       \* SpecScroll: length of the run, in steps of ScrollStep
ScrollSamples == 4     \* SpecScroll: scroll samples processed
MouseTicks == 22       \* SpecHeatmap: length of the run, in mouse debounce delays
MouseSamples == 22     \* SpecHeatmap: mouse samples processed
MouseCells == 21       \* SpecHeatmap: cells of the pointer's path
MouseRevisits == 1     \* SpecHeatmap: samples in a cell already visited
SummaryTicks == 3      \* SpecSummary: length of the run, in steps of ScrollStep
SummarySamples == 1    \* SpecSummary: scroll samples processed
InputLog == 4          \* SpecInput: events recorded per session
NavLog == 11           \* SpecNav: events recorded per session

(* Program constants *)

BatchSize == 10                \* this.events.length >= 10
InactivityDelay == 300000      \* 5 * 60 * 1000
PingInterval == 30000          \* setInterval(..., 30000)
ScrollDebounce == 250          \* setTimeout(..., 250)
MouseDebounce == 1000          \* setTimeout(..., 1000)
GridSize == 50                 \* const gridSize = 50
HeatmapEvery == 20             \* Object.keys(this.heatmapData).length % 20
HotSpots == 5                  \* .slice(0, 5)
Milestones == <<25, 50, 75, 100>>
NoTimer == -1                  \* a timer variable with nothing scheduled

NoKey == "<null>"              \* localStorage.getItem(...) === null
FlagValues == {NoKey, "true", "false", "yes"}
StorageDisabled == "<SecurityError>"   \* storage is blocked: every access throws
Throws == "<throws>"           \* the call ends in an exception
\* localStorage.getItem('analytics_enabled') on a store holding `store`
getItem(store) == IF store = StorageDisabled THEN Throws ELSE store
Suffixes == {"k3x9"}           \* Math.random().toString(36).substr(2, 9)
Undefined == "<undefined>"     \* a property the object does not have
Null == "<null>"

\* The page is taller than the window:
\* document.documentElement.scrollHeight and window.innerHeight
Geometry == [scrollHeight |-> 2800, innerHeight |-> 800]

----------------------------------------------------------------------------
(* Sequence helpers *)

Last(s) == s[Len(s)]

Range(s) == {s[k] : k \in 1..Len(s)}

\* s is a contiguous block of t (in the same order)
IsBlockOf(s, t) ==
    \E a \in 0..(Len(t) - Len(s)) : \A k \in 1..Len(s) : t[a + k] = s[k]

\* e.f, or undefined when the event has no such key
Get(e, f) == IF f \in DOMAIN e THEN e[f] ELSE Undefined

\* Math.round(p / q) for p >= 0, q > 0
RoundDiv(p, q) == (2 * p + q) \div (2 * q)

Min(a, b) == IF a <= b THEN a ELSE b

----------------------------------------------------------------------------
(* AnalyticsManager *)

\* generateSessionId(): 'session_' + Date.now() + '_' + random suffix
generateSessionId(t, r) == <<"session", t, r>>

\* async sendAnalytics(), up to its await: nothing when the queue is empty,
\* otherwise one POST whose body is the JSON of the queue as it is now.
sendAnalytics(m) ==
    IF Len(m.events) = 0 THEN m
    ELSE [m EXCEPT
            !.inflight = Append(@, [session_id |-> m.sessionId, events |-> m.events]),
            !.calls = @ + 1]

\* a plausible slip: the batch is sent only once the queue exceeds ten
shouldFlush_OffByOne(m) == Len(m.events) > BatchSize

\* if (this.events.length >= 10)
shouldFlush(m) == Len(m.events) >= BatchSize

\* a plausible slip: the new event is put at the head of the queue
push_Unshift(events, event) == <<event>> \o events

\* this.events.push(event)
push(events, event) == Append(events, event)

\* How a statement that calls an async function completes: the call returns
\* the function's promise; a throw inside the function rejects that promise
\* and is not thrown to the caller.
asyncCall == "normal"

\* trackEvent(eventName, eventData): the payload is spread after the
\* envelope, so a payload key replaces the envelope's key of the same name.
trackEvent(m, eventName, eventData, t) ==
    LET envelope == [event |-> eventName, session_id |-> m.sessionId,
                     timestamp |-> t, page_url |-> "index.html",
                     seq |-> Len(m.log) + 1]
        event == eventData @@ envelope
        pushed == [m EXCEPT !.events = push(@, event)]
        after == IF shouldFlush(pushed) THEN sendAnalytics(pushed)
                 ELSE pushed
    IN [after EXCEPT
           !.log = Append(@, [ev |-> event,
                              name |-> eventName,
                              completion |-> IF shouldFlush(pushed) THEN asyncCall
                                             ELSE "normal",
                              qlen |-> Len(pushed.events),
                              called |-> after.calls - m.calls,
                              body |-> IF after.calls > m.calls
                                       THEN Last(after.inflight).events ELSE <<>>]),
           !.owed = IF @ = {} THEN {} ELSE @ \cup {event}]

\* the try block of sendAnalytics: await fetch(...) throws when fetch rejects;
\* a response that is not ok is no exception
tryBlock(outcome) == IF outcome = "throw" THEN "thrown" ELSE "normal"

\* a plausible slip: the catch block logs and throws the error again
catchBlock_Rethrows(completion) == completion

\* catch (error) { console.warn(...) }: the exception ends here
catchBlock(completion) == "normal"

\* the promise an async function returns, from how its body completed
promiseOf(completion) == IF completion = "normal" THEN "fulfilled" ELSE "rejected"

\* sendAnalytics() after its await, for the k-th call in flight.
\* outcome: "ok" (response.ok), "non2xx" (response, not ok), "throw" (fetch rejects)
sendAnalyticsResume(m, k, outcome) ==
    LET body == m.inflight[k]
        rest == SubSeq(m.inflight, 1, k - 1) \o SubSeq(m.inflight, k + 1, Len(m.inflight))
        done == [m EXCEPT !.inflight = rest,
                          !.settled = Append(@, [outcome |-> outcome,
                                                 promise |-> promiseOf(catchBlock(tryBlock(outcome)))])]
    IN IF outcome = "ok"
       THEN [done EXCEPT !.events = <<>>, !.acked = @ \cup {body}, !.owed = {}]
       ELSE [done EXCEPT !.owed = @ \cup Range(body.events)]

\* a plausible slip: the timer is restarted but the session is not marked active
resetInactivityTimer_StaysInactive(m, t) ==
    [m EXCEPT !.inactivityTimeout = t + InactivityDelay]

\* resetInactivityTimer: clearTimeout, isActive = true, a new 5-minute timer
resetInactivityTimer(m, t) ==
    [m EXCEPT !.isActive = TRUE, !.inactivityTimeout = t + InactivityDelay]

\* the inactivity timer's callback
inactivityExpired(m, t) ==
    trackEvent([m EXCEPT !.isActive = FALSE, !.inactivityTimeout = NoTimer],
               "session_inactive", <<>>, t)

\* getCurrentSection(): no section element carries the 'active' class here
getCurrentSection == "unknown"

\* a plausible slip: the ping is recorded whether the session is active or not
sessionPing_Always(m, t) ==
    trackEvent([m EXCEPT !.pingAt = t + PingInterval], "session_ping",
        [time_elapsed |-> t - m.startTime, current_section |-> getCurrentSection], t)

\* the 30-second interval's callback
sessionPing(m, t) ==
    LET again == [m EXCEPT !.pingAt = t + PingInterval]
    IN IF m.isActive
       THEN trackEvent(again, "session_ping",
                [time_elapsed |-> t - m.startTime, current_section |-> getCurrentSection], t)
       ELSE again

\* startSessionTracking(): the 30 s interval and the first inactivity timer
startSessionTracking(m, t) ==
    resetInactivityTimer([m EXCEPT !.pingAt = t + PingInterval], t)

\* scrollPercent = Math.round(scrollY / (scrollHeight - innerHeight) * 100)
scrollPercent(y) == RoundDiv(y * 100, Geometry.scrollHeight - Geometry.innerHeight)

\* a plausible slip: the milestone is not checked against those already reached
visitMilestone_Refires(m, milestone, y, t) ==
    IF scrollPercent(y) >= milestone
    THEN trackEvent([m EXCEPT !.scrollMilestones = @ \cup {milestone}],
             "scroll_depth", [percentage |-> milestone, absolute_position |-> y], t)
    ELSE m

\* the body of milestones.forEach in trackScrollDepth
visitMilestone(m, milestone, y, t) ==
    IF scrollPercent(y) >= milestone /\ milestone \notin m.scrollMilestones
    THEN trackEvent([m EXCEPT !.scrollMilestones = @ \cup {milestone}],
             "scroll_depth", [percentage |-> milestone, absolute_position |-> y], t)
    ELSE m

\* a plausible slip: the milestones are visited from the largest down
RECURSIVE forEachMilestone_Reversed(_, _, _, _)
forEachMilestone_Reversed(m, ms, y, t) ==
    IF ms = <<>> THEN m
    ELSE forEachMilestone_Reversed(visitMilestone(m, Last(ms), y, t),
                                   SubSeq(ms, 1, Len(ms) - 1), y, t)

RECURSIVE forEachMilestone(_, _, _, _)
forEachMilestone(m, ms, y, t) ==
    IF ms = <<>> THEN m
    ELSE forEachMilestone(visitMilestone(m, Head(ms), y, t), Tail(ms), y, t)

\* trackScrollDepth()
trackScrollDepth(m, y, t) ==
    forEachMilestone([m EXCEPT !.scrollSamples = Append(@, y)], Milestones, y, t)

\* a plausible slip: every sample opens a new bucket
increment_AlwaysNew(obj, key) == Append(obj, [key |-> key, count |-> 1])

\* obj[key] = (obj[key] || 0) + 1 on an object whose keys keep insertion order
increment(obj, key) ==
    IF \E k \in 1..Len(obj) : obj[k].key = key
    THEN [k \in 1..Len(obj) |->
             IF obj[k].key = key THEN [obj[k] EXCEPT !.count = @ + 1] ELSE obj[k]]
    ELSE Append(obj, [key |-> key, count |-> 1])

\* Object.entries(obj).sort(([,a], [,b]) => b - a): by count, largest first,
\* entries of equal count in their insertion order
RECURSIVE sortByCount(_)
sortByCount(obj) ==
    IF obj = <<>> THEN <<>>
    ELSE LET before == sortByCount(SubSeq(obj, 1, Len(obj) - 1))
             e == Last(obj)
             n == Cardinality({k \in 1..Len(before) : before[k].count >= e.count})
         IN SubSeq(before, 1, n) \o <<e>> \o SubSeq(before, n + 1, Len(before))

\* .slice(0, n)
slice(s, n) == SubSeq(s, 1, Min(n, Len(s)))

\* `${gridX},${gridY}`
gridKey(x, y) == ToString(x \div GridSize) \o "," \o ToString(y \div GridSize)

\* the hot_spots payload of heatmap_data
hotSpots(obj) ==
    LET top == slice(sortByCount(obj), HotSpots)
    IN [k \in 1..Len(top) |-> [position |-> top[k].key, count |-> top[k].count]]

\* trackMousePosition(x, y)
trackMousePosition(m, x, y, t) ==
    LET counted == [m EXCEPT !.heatmapData = increment(@, gridKey(x, y)),
                             !.mouseSamples = Append(@, <<x, y>>)]
    IN IF Len(counted.heatmapData) % HeatmapEvery = 0
       THEN trackEvent(counted, "heatmap_data",
                [grid_size |-> GridSize, hot_spots |-> hotSpots(counted.heatmapData)], t)
       ELSE counted

\* new Set(events.filter(e => e.event === 'navigation').map(e => e.target_section)).size
sectionsVisited(events) ==
    Cardinality({Get(events[k], "target_section") :
                    k \in {j \in 1..Len(events) : events[j].event = "navigation"}})

\* calculateEngagementScore()
calculateEngagementScore(m, t) ==
    LET timeSpent == t - m.startTime
        eventsCount == Len(m.events)
    \* Math.round(Math.min(timeSpent / 60000, 10) * 10 + Math.min(eventsCount, 50) * 2
    \*            + sectionsVisited * 20)
    IN RoundDiv(Min(timeSpent, 10 * 60000), 6000)
         + Min(eventsCount, 50) * 2 + sectionsVisited(m.events) * 20

\* getMostClickedElements()
RECURSIVE countClicks(_)
countClicks(clicks) ==
    IF clicks = <<>> THEN <<>>
    ELSE LET click == Last(clicks)
             key == IF click.element_class # ""
                    THEN click.element_type \o "." \o click.element_class
                    ELSE click.element_type
         IN increment(countClicks(SubSeq(clicks, 1, Len(clicks) - 1)), key)

getMostClickedElements(m) ==
    LET isClick(e) == e.event = "click"
        top == slice(sortByCount(countClicks(SelectSeq(m.events, isClick))), 5)
    IN [k \in 1..Len(top) |-> [element |-> top[k].key, count |-> top[k].count]]

\* getMaxScrollDepth(): Math.max(0, ...percentages of the queued scroll_depth events)
getMaxScrollDepth(m) ==
    LET depths == {m.events[k].percentage :
                      k \in {j \in 1..Len(m.events) : m.events[j].event = "scroll_depth"}}
    IN IF depths = {} THEN 0 ELSE CHOOSE d \in depths : \A o \in depths : o <= d

\* getSessionSummary()
getSessionSummary(m, t) ==
    [session_id |-> m.sessionId,
     start_time |-> m.startTime,
     duration |-> t - m.startTime,
     events_count |-> Len(m.events),
     engagement_score |-> calculateEngagementScore(m, t),
     sections_visited |-> sectionsVisited(m.events),
     most_clicked_elements |-> getMostClickedElements(m),
     scroll_depth |-> getMaxScrollDepth(m)]

\* constructor() and init()
newAnalyticsManager(t, r) ==
    LET fresh == [sessionId |-> generateSessionId(t, r),
                  startTime |-> t,
                  events |-> <<>>,
                  isActive |-> TRUE,
                  lastActivity |-> t,
                  scrollMilestones |-> {},
                  heatmapData |-> <<>>,
                  inactivityTimeout |-> NoTimer,
                  pingAt |-> NoTimer,
                  scrollTimeout |-> NoTimer,
                  mouseMoveTimeout |-> [at |-> NoTimer, x |-> 0, y |-> 0],
                  inflight |-> <<>>,
                  \* history
                  log |-> <<>>, acked |-> {}, calls |-> 0, owed |-> {},
                  scrollSamples |-> <<>>, mouseSamples |-> <<>>,
                  settled |-> <<>>, typed |-> <<>>,
                  disabledAt |-> [log |-> -1, calls |-> -1]]
        loaded == trackEvent(fresh, "page_load", [url |-> "index.html"], t)
    IN startSessionTracking(loaded, t)

----------------------------------------------------------------------------
(* The chat widget (chatbot.js)                                            *)
(*                                                                         *)
(* The widget is one record: the script's globals (chatMode, chatSession,  *)
(* isTyping, chatHistory), the part of the DOM the claims speak about      *)
(* (chatInput.value, the display of the panel and of the floating action   *)
(* button, the size of the panel), the closure of makeChatbotResizable,    *)
(* the timers the script has set and the chat requests in flight.  A timer *)
(* is [at, fn, arg]; timers are kept in the order setTimeout was called,   *)
(* and of the timers due the one due first runs first, the one set first   *)
(* among equals.  Timers whose callback only styles or scrolls the DOM     *)
(* (opacity, focus, scrollTop, suggestion and 'Tell me more' buttons) are  *)
(* not kept.  History fields of the record:                                *)
(*   toggles   the number of toggleChatMode calls                          *)
(*   sent      every request sent: its body and `toggles` when sendMessage *)
(*             was called                                                  *)
(*   answered  how each request ended: the outcome and the message sent    *)
(*   lastOp    the last of openChatBot / closeChat / minimizeChat called   *)
(*   clears    the number of clearChatHistory calls                        *)
(*   refused   flipped by each sendMessage call that returned at the guard *)
(*   pointer   where the last mouse event was                              *)
(*   moves     flipped by each 'mousemove' dispatched                      *)
(*   drags     the number of 'mousedown' events on the resize handle       *)

WelcomeMessages ==
    <<"Hi! I'm Sai's AI twin.", "I'm currently in **Strict Mode**",
      "You can toggle to **Open Mode**", "Try clicking on any part of his resume">>

WelcomeStep == 1000            \* index * 1000
ClearDelay == 500              \* clearChatHistory: setTimeout(..., 500)
CloseDelay == 300              \* closeChat: setTimeout(..., 300)
MinWidth == 300
MinHeight == 400
CssWidth == 380                \* .chatbot-container { width: 380px }
CssHeight == 500               \* .chatbot-container { height: 500px }
Viewport == [innerWidth |-> 1000, innerHeight |-> 800]

\* generateSessionId() of chatbot.js
chatGenerateSessionId(t, r) == <<"chat", t, r>>

\* setTimeout(() => fn(arg), delay)
setTimeout(c, fn, arg, delay, t) ==
    [c EXCEPT !.timers = Append(@, [at |-> t + delay, fn |-> fn, arg |-> arg])]

\* a plausible slip: the new entry is put in front
historyPush_Unshift(h, entry) == <<entry>> \o h

\* chatHistory.push(entry)
historyPush(h, entry) == Append(h, entry)

\* formatMessage(message) calls message.replace: it throws on what is not a string
isString(message) == message # Undefined

\* addChatMessage(sender, message, animate), the #chatMessages element present
addChatMessage(c, sender, message, t) ==
    [c EXCEPT !.chatHistory =
        historyPush(@, [sender |-> sender, message |-> message, timestamp |-> t])]

RECURSIVE scheduleWelcome(_, _, _)
scheduleWelcome(c, index, t) ==
    IF index > Len(WelcomeMessages) THEN c
    ELSE scheduleWelcome(
             setTimeout(c, "addChatMessage", WelcomeMessages[index],
                        (index - 1) * WelcomeStep, t),
             index + 1, t)

\* addWelcomeMessage(): welcomeMessages.forEach((message, index) => setTimeout(...))
addWelcomeMessage(c, t) == scheduleWelcome(c, 1, t)

\* initializeChatbot()
initializeChatbot(c, t, r) ==
    addWelcomeMessage([c EXCEPT !.chatSession = chatGenerateSessionId(t, r)], t)

\* The page without chatbot.js
NoChatbot == [script |-> FALSE]

\* chatbot.js evaluated, before DOMContentLoaded: its globals and the styled DOM
chatbot ==
    [script |-> TRUE, chatMode |-> "strict", chatSession |-> <<>>, isTyping |-> FALSE,
     chatHistory |-> <<>>, value |-> "", panel |-> "none", fab |-> "flex",
     width |-> CssWidth, height |-> CssHeight,
     isResizing |-> FALSE, listening |-> FALSE,
     startX |-> 0, startY |-> 0, startWidth |-> 0, startHeight |-> 0,
     timers |-> <<>>, requests |-> <<>>,
     toggles |-> 0, sent |-> <<>>, answered |-> <<>>, lastOp |-> "none",
     clears |-> 0, refused |-> FALSE,
     pointer |-> [clientX |-> 0, clientY |-> 0], moves |-> FALSE, drags |-> 0]

----------------------------------------------------------------------------
(* The page *)

\* The page as the browser starts to load it: `flags` are the values the
\* opt-out key may hold, `lim` the bounds of the run.
InitWith(flags, lim) ==
    /\ localStorage \in flags
    /\ page = "loading"
    /\ loadFlag = NoKey
    /\ analytics = 0
    /\ sessions = <<>>
    /\ now = 0
    /\ scrollY = 0
    /\ enableCalled = FALSE
    /\ lastInput = 0
    /\ limits = lim
    /\ currentSection = "home"
    /\ chat = NoChatbot

Live == 1..Len(sessions)

\* The environment's bound: an input is offered only while every session can
\* still record the k events it may cause.
Room(k) == \A i \in Live : Len(sessions[i].log) + k <= limits.log

\* The timers of a session that are scheduled
Timers(m) ==
    {m.inactivityTimeout, m.pingAt, m.scrollTimeout, m.mouseMoveTimeout.at} \ {NoTimer}

Due(d) == d # NoTimer /\ d <= now

NoneDue == \A i \in Live : \A d \in Timers(sessions[i]) : ~Due(d)

Interactive == page = "ready" /\ NoneDue

\* a plausible slip: the session is created whatever the stored flag
DOMContentLoaded_IgnoresFlag ==
    /\ page = "loading"
    /\ page' = "ready"
    /\ loadFlag' = localStorage
    /\ \E r \in Suffixes :
          /\ sessions' = Append(sessions, newAnalyticsManager(now, r))
          /\ analytics' = Len(sessions) + 1
    /\ chat' = IF chat.script THEN initializeChatbot(chat, now, "q7f2") ELSE chat
    /\ UNCHANGED <<localStorage, now, scrollY, enableCalled, lastInput, limits, currentSection>>

\* document 'DOMContentLoaded': the listener of analytics.js (when getItem
\* throws it ends there) and, on a page with the chat widget, the listener of
\* chatbot.js
DOMContentLoaded ==
    /\ page = "loading"
    /\ page' = "ready"
    /\ loadFlag' = localStorage
    /\ IF getItem(localStorage) # Throws /\ getItem(localStorage) # "false"
       THEN \E r \in Suffixes :
               /\ sessions' = Append(sessions, newAnalyticsManager(now, r))
               /\ analytics' = Len(sessions) + 1
       ELSE UNCHANGED <<sessions, analytics>>
    /\ chat' = IF chat.script THEN initializeChatbot(chat, now, "q7f2") ELSE chat
    /\ UNCHANGED <<localStorage, now, scrollY, enableCalled, lastInput, limits, currentSection>>

\* Elements of the page a click can land on
PlainDiv == [tagName |-> "div", className |-> "", id |-> "hero", classList |-> {},
             href |-> "", project |-> "", skill |-> "", textContent |-> "Hi"]
NavAbout == [tagName |-> "a", className |-> "nav-link", id |-> "", classList |-> {"nav-link"},
             href |-> "#about", project |-> "", skill |-> "", textContent |-> "About"]
NavSkills == [tagName |-> "a", className |-> "nav-link", id |-> "", classList |-> {"nav-link"},
              href |-> "#skills", project |-> "", skill |-> "", textContent |-> "Skills"]

\* handleClick(e): the click event, then one more event per recognised category
handleClick(m, el, t) ==
    LET m1 == trackEvent(m, "click",
                  [element_type |-> el.tagName, element_class |-> el.className,
                   element_id |-> el.id, element_text |-> el.textContent], t)
        m2 == IF "nav-link" \in el.classList
              THEN trackEvent(m1, "navigation",
                       [target_section |-> el.href, nav_text |-> el.textContent], t)
              ELSE m1
        m3 == IF "download-btn" \in el.classList
              THEN trackEvent(m2, "download_attempt", [button_text |-> el.textContent], t)
              ELSE m2
        m4 == IF el.classList \cap {"project-card", "project-btn"} # {}
              THEN trackEvent(m3, "project_interest",
                       [project |-> IF el.project # "" THEN el.project ELSE "unknown"], t)
              ELSE m3
    IN IF "skill-item" \in el.classList
       THEN trackEvent(m4, "skill_click",
                [skill |-> IF el.skill # "" THEN el.skill ELSE el.textContent], t)
       ELSE m4

\* document 'click': every constructed AnalyticsManager has its listener
Click(el) ==
    /\ Interactive
    /\ Room(2)
    /\ sessions' = [i \in Live |-> handleClick(sessions[i], el, now)]
    /\ UNCHANGED <<localStorage, page, loadFlag, analytics, now, scrollY,
                   enableCalled, lastInput, limits, currentSection, chat>>

\* 'mousedown', 'keypress', 'touchstart': only resetInactivityTimer listens
QualifyingInput ==
    /\ Interactive
    /\ sessions' = [i \in Live |-> resetInactivityTimer(sessions[i], now)]
    /\ lastInput' = now
    /\ UNCHANGED <<localStorage, page, loadFlag, analytics, now, scrollY,
                   enableCalled, limits, currentSection, chat>>

\* a plausible slip: a timer that is already running is left to run
onScroll_KeepsTimer(m, t) ==
    IF m.scrollTimeout # NoTimer THEN m ELSE [m EXCEPT !.scrollTimeout = t + ScrollDebounce]

\* the window 'scroll' listener: restart the 250 ms timer
onScroll(m, t) == [m EXCEPT !.scrollTimeout = t + ScrollDebounce]

\* 'scroll': the window has scrolled to y
Scroll(y) ==
    /\ Interactive
    /\ y # scrollY
    /\ \A i \in Live : Len(sessions[i].scrollSamples) < limits.samples
    /\ scrollY' = y
    /\ sessions' = [i \in Live |-> onScroll(resetInactivityTimer(sessions[i], now), now)]
    /\ lastInput' = now
    /\ UNCHANGED <<localStorage, page, loadFlag, analytics, now, enableCalled, limits, currentSection, chat>>

\* the scroll timer's callback
scrollTimerFired(m, y, t) == trackScrollDepth([m EXCEPT !.scrollTimeout = NoTimer], y, t)

ScrollTimerFires(i) ==
    /\ page = "ready"
    /\ i \in Live
    /\ Due(sessions[i].scrollTimeout)
    /\ sessions' = [sessions EXCEPT ![i] = scrollTimerFired(@, scrollY, now)]
    /\ UNCHANGED <<localStorage, page, loadFlag, analytics, now, scrollY,
                   enableCalled, lastInput, limits, currentSection, chat>>

\* the document 'mousemove' listener: restart the 1000 ms timer with this position
onMouseMove(m, x, y, t) ==
    [m EXCEPT !.mouseMoveTimeout = [at |-> t + MouseDebounce, x |-> x, y |-> y]]

\* 'mousemove' at (x, y)
MouseMove(x, y) ==
    /\ Interactive
    /\ \A i \in Live : Len(sessions[i].mouseSamples) < limits.samples
    /\ sessions' = [i \in Live |->
                       onMouseMove(resetInactivityTimer(sessions[i], now), x, y, now)]
    /\ lastInput' = now
    /\ UNCHANGED <<localStorage, page, loadFlag, analytics, now, scrollY,
                   enableCalled, limits, currentSection, chat>>

\* the mouse timer's callback
mouseTimerFired(m, t) ==
    trackMousePosition([m EXCEPT !.mouseMoveTimeout.at = NoTimer],
                       m.mouseMoveTimeout.x, m.mouseMoveTimeout.y, t)

MouseTimerFires(i) ==
    /\ page = "ready"
    /\ i \in Live
    /\ Due(sessions[i].mouseMoveTimeout.at)
    /\ sessions' = [sessions EXCEPT ![i] = mouseTimerFired(@, now)]
    /\ UNCHANGED <<localStorage, page, loadFlag, analytics, now, scrollY,
                   enableCalled, lastInput, limits, currentSection, chat>>

InactivityFires(i) ==
    /\ page = "ready"
    /\ i \in Live
    /\ Due(sessions[i].inactivityTimeout)
    /\ sessions' = [sessions EXCEPT ![i] = inactivityExpired(@, now)]
    /\ UNCHANGED <<localStorage, page, loadFlag, analytics, now, scrollY,
                   enableCalled, lastInput, limits, currentSection, chat>>

PingFires(i) ==
    /\ page = "ready"
    /\ i \in Live
    /\ Due(sessions[i].pingAt)
    /\ sessions' = [sessions EXCEPT ![i] = sessionPing(@, now)]
    /\ UNCHANGED <<localStorage, page, loadFlag, analytics, now, scrollY,
                   enableCalled, lastInput, limits, currentSection, chat>>

\* d milliseconds pass, none of them past a scheduled timer
Tick(d) ==
    /\ page = "ready"
    /\ d > 0
    /\ now + d <= limits.clock
    /\ \A i \in Live : \A due \in Timers(sessions[i]) : now + d <= due
    /\ now' = now + d
    /\ UNCHANGED <<localStorage, page, loadFlag, analytics, sessions, scrollY,
                   enableCalled, lastInput, limits, currentSection, chat>>

\* trackAnalyticsEvent(eventName, eventData), the export other scripts call
trackAnalyticsEvent(eventName, eventData) ==
    IF analytics # 0
    THEN [sessions EXCEPT ![analytics] = trackEvent(@, eventName, eventData, now)]
    ELSE sessions

TrackAnalyticsEvent(eventName, eventData) ==
    /\ Interactive
    /\ Room(1)
    /\ sessions' = trackAnalyticsEvent(eventName, eventData)
    /\ UNCHANGED <<localStorage, page, loadFlag, analytics, now, scrollY,
                   enableCalled, lastInput, limits, currentSection, chat>>

\* getAnalyticsSummary()
getAnalyticsSummary ==
    IF analytics # 0 THEN getSessionSummary(sessions[analytics], now) ELSE Null

\* The collector answers the k-th call in flight of session i
Outcomes == {"ok", "non2xx", "throw"}

Respond(i, k, outcome) ==
    /\ page = "ready"
    /\ i \in Live
    /\ k \in 1..Len(sessions[i].inflight)
    /\ sessions' = [sessions EXCEPT ![i] = sendAnalyticsResume(@, k, outcome)]
    /\ UNCHANGED <<localStorage, page, loadFlag, analytics, now, scrollY,
                   enableCalled, lastInput, limits, currentSection, chat>>

CollectorResponds ==
    \E i \in Live : \E k \in 1..Len(sessions[i].inflight) : \E o \in Outcomes :
        Respond(i, k, o)

\* localStorage.setItem('analytics_enabled', value) on a store holding `store`
setItem(store, value) == IF store = StorageDisabled THEN Throws ELSE value

\* enableAnalytics(): when setItem throws the function ends there
enableAnalytics ==
    /\ Interactive
    /\ analytics = 0 => Len(sessions) < limits.instances
    /\ localStorage' = IF setItem(localStorage, "true") = Throws THEN localStorage ELSE "true"
    /\ enableCalled' = TRUE
    /\ IF setItem(localStorage, "true") # Throws /\ analytics = 0
       THEN \E r \in Suffixes :
               /\ sessions' = Append(sessions, newAnalyticsManager(now, r))
               /\ analytics' = Len(sessions) + 1
       ELSE UNCHANGED <<sessions, analytics>>
    /\ UNCHANGED <<page, loadFlag, now, scrollY, lastInput, limits, currentSection, chat>>

\* disableAnalytics(): when setItem throws the function ends there
disableAnalytics ==
    /\ Interactive
    /\ localStorage' = IF setItem(localStorage, "false") = Throws THEN localStorage ELSE "false"
    /\ IF setItem(localStorage, "false") # Throws /\ analytics # 0
       THEN /\ sessions' = [sessions EXCEPT ![analytics] =
                               LET sent == sendAnalytics(@)
                               IN [sent EXCEPT !.disabledAt =
                                      [log |-> Len(sent.log), calls |-> sent.calls]]]
            /\ analytics' = 0
       ELSE UNCHANGED <<sessions, analytics>>
    /\ UNCHANGED <<page, loadFlag, now, scrollY, enableCalled, lastInput, limits, currentSection, chat>>

\* window 'beforeunload': page_unload, then a last flush; the page is gone after it
beforeunload(m, t) ==
    sendAnalytics(trackEvent(m, "page_unload",
        [total_time_spent |-> t - m.startTime, total_events |-> Len(m.events)], t))

BeforeUnload ==
    /\ Interactive
    /\ page' = "unloaded"
    /\ sessions' = [i \in Live |-> beforeunload(sessions[i], now)]
    /\ UNCHANGED <<localStorage, loadFlag, analytics, now, scrollY,
                   enableCalled, lastInput, limits, currentSection, chat>>

NoLimits == [log |-> 0, instances |-> 0, clock |-> 0, samples |-> 0, cells |-> 0,
             revisits |-> 0]

----------------------------------------------------------------------------
(* Spec: the batch dispatcher. One session, clicks, the collector's answers, *)
(* the explicit flushes of disableAnalytics and beforeunload.                *)

Init == InitWith({NoKey}, [NoLimits EXCEPT !.log = MaxLog, !.instances = 1])

Next ==
    \/ DOMContentLoaded
    \/ \E el \in {PlainDiv, NavAbout} : Click(el)
    \/ CollectorResponds
    \/ disableAnalytics
    \/ BeforeUnload

Spec == Init /\ [][Next]_vars

(* SpecPrivacy: the opt-out flag, enableAnalytics and disableAnalytics. *)

InitPrivacy ==
    InitWith(FlagValues, [NoLimits EXCEPT !.log = PrivacyLog, !.instances = MaxInstances])

NextPrivacy ==
    \/ DOMContentLoaded
    \/ Click(PlainDiv)
    \/ TrackAnalyticsEvent("theme_change", [theme |-> "dark"])
    \/ CollectorResponds
    \/ enableAnalytics
    \/ disableAnalytics

SpecPrivacy == InitPrivacy /\ [][NextPrivacy]_vars

(* SpecSession: the inactivity timer and the 30-second ping.  The clock    *)
(* advances by ping intervals and the collector answers the calls in the   *)
(* order they were made.                                                   *)

InitSession ==
    InitWith({NoKey}, [NoLimits EXCEPT !.instances = 1,
                                       !.clock = SessionTicks * PingInterval])

NextSession ==
    \/ DOMContentLoaded
    \/ QualifyingInput
    \/ Tick(PingInterval)
    \/ \E i \in Live : InactivityFires(i)
    \/ \E i \in Live : PingFires(i)
    \/ \E o \in Outcomes : Respond(1, 1, o)

SpecSession == InitSession /\ [][NextSession]_vars

(* SpecScroll: scroll events, the 250 ms debounce and the scroll milestones. *)

ScrollStep == ScrollDebounce \div 2   \* the clock advances by half a debounce delay
ScrollStops == {0, 490, 600, 1200, 2000}

InitScroll ==
    InitWith({NoKey}, [NoLimits EXCEPT !.instances = 1, !.samples = ScrollSamples,
                                       !.clock = ScrollTicks * ScrollStep])

NextScroll ==
    \/ DOMContentLoaded
    \/ \E y \in ScrollStops : Scroll(y)
    \/ Tick(ScrollStep)
    \/ \E i \in Live : ScrollTimerFires(i)

SpecScroll == InitScroll /\ [][NextScroll]_vars

(* SpecHeatmap: mouse moves, the 1000 ms debounce and the heatmap.  The      *)
(* pointer follows a path of cells, five to a row; it may go on to the next  *)
(* cell of the path, or back to the first or to the latest one.  Cell 7 of   *)
(* the path is entered at pixel (120, 80).                                   *)

PathOffsets == <<20, 30, 0, 0, 49, 49>>

PathPixel(c) == [x |-> (c % 5) * 50 + PathOffsets[2 * ((c + 2) % 3) + 1],
                 y |-> (c \div 5) * 50 + PathOffsets[2 * ((c + 2) % 3) + 2]]

PathCells ==
    LET n == IF sessions = <<>> THEN 0 ELSE Len(sessions[1].heatmapData)
        back == IF sessions = <<>> THEN 0 ELSE Len(sessions[1].mouseSamples) - n
    IN {c \in {0, n - 1, n} :
           /\ 0 <= c /\ c < limits.cells
           /\ c < n => back < limits.revisits}

InitHeatmap ==
    InitWith({NoKey}, [NoLimits EXCEPT !.instances = 1, !.samples = MouseSamples,
                                       !.cells = MouseCells, !.revisits = MouseRevisits,
                                       !.clock = MouseTicks * MouseDebounce])

NextHeatmap ==
    \/ DOMContentLoaded
    \/ \E c \in PathCells : MouseMove(PathPixel(c).x, PathPixel(c).y)
    \/ Tick(MouseDebounce)
    \/ \E i \in Live : MouseTimerFires(i)

SpecHeatmap == InitHeatmap /\ [][NextHeatmap]_vars

----------------------------------------------------------------------------
(* The batch dispatcher *)

\* The collector answers call k of session i with `outcome` in this step
Answered(i, k, outcome) ==
    /\ i \in Live
    /\ k \in 1..Len(sessions[i].inflight)
    /\ sessions' = [sessions EXCEPT ![i] = sendAnalyticsResume(@, k, outcome)]

\* The events of the queue as it was right after the j-th trackEvent of m,
\* when that queue held n events
QueueAt(m, j, n) == [k \in 1..n |-> m.log[j - n + k].ev]

C1_Threshold ==
    \A i \in Live : \A j \in 1..Len(sessions[i].log) :
        LET e == sessions[i].log[j] IN
        /\ e.qlen < BatchSize => e.called = 0
        /\ e.qlen = BatchSize =>
              /\ e.called = 1
              /\ Len(e.body) = BatchSize
              /\ e.body = QueueAt(sessions[i], j, BatchSize)

C1_SuccessEmpties ==
    \A i \in Live : \A k \in 1..Len(sessions[i].inflight) :
        Answered(i, k, "ok") => sessions'[i].events = <<>>

\* C1: a trackEvent that leaves fewer than 10 events in the queue makes no
\* collector call; the one that brings the queue to 10 makes exactly one call,
\* whose body is the 10 queued events; when a call is answered 2xx the queue
\* is empty.
C1_BatchFlush == []C1_Threshold /\ [][C1_SuccessEmpties]_vars

\* C1 witness: ten events recorded from the empty queue, one call made, its
\* body of ten events acknowledged, the queue empty.
C1_Witness ==
    \E i \in Live :
        /\ Len(sessions[i].log) = BatchSize
        /\ sessions[i].calls = 1
        /\ \E b \in sessions[i].acked : b.events = QueueAt(sessions[i], BatchSize, BatchSize)
        /\ sessions[i].events = <<>>

\* C2 (as claimed): when a flush fails the queue still holds every event of
\* that flush, in order, and the next flush that succeeds carries those events
\* and every event recorded since.
C2_FailureRetains ==
    [][\A i \in Live : \A k \in 1..Len(sessions[i].inflight) :
          /\ \A o \in {"non2xx", "throw"} :
                Answered(i, k, o) =>
                    IsBlockOf(sessions[i].inflight[k].events, sessions'[i].events)
          /\ Answered(i, k, "ok") =>
                sessions[i].owed \subseteq Range(sessions[i].inflight[k].events)]_vars

\* C3 (as claimed): until the page is torn down, every event a session ever
\* recorded is in its queue or in the body of a call that was answered 2xx.
C3_AtLeastOnce ==
    page # "unloaded" =>
        \A i \in Live : \A j \in 1..Len(sessions[i].log) :
            \/ sessions[i].log[j].ev \in Range(sessions[i].events)
            \/ \E b \in sessions[i].acked : sessions[i].log[j].ev \in Range(b.events)

----------------------------------------------------------------------------
(* The session *)

Max(a, b) == IF a >= b THEN a ELSE b

\* The log entries of m whose event is named `name`
Recorded(m, name) == {j \in 1..Len(m.log) : m.log[j].ev.event = name}

\* When the current stretch without qualifying input began for session m
QuietSince(m) == Max(lastInput, m.startTime)

\* C4: while less than 5 minutes have passed since the last qualifying input
\* the session is active and no session_inactive event belongs to this quiet
\* stretch; once 5 minutes have passed (and the timer's callback has run) it
\* is inactive and exactly one session_inactive event was recorded for the
\* stretch; a qualifying input starts a new stretch, so makes it active again.
C4_Inactivity ==
    \A i \in Live :
        LET m == sessions[i]
            gap == now - QuietSince(m)
            n == Cardinality({j \in Recorded(m, "session_inactive") :
                                 m.log[j].ev.timestamp > QuietSince(m)})
        IN /\ gap < InactivityDelay => m.isActive /\ n = 0
           /\ (gap >= InactivityDelay /\ ~Due(m.inactivityTimeout)) =>
                 ~m.isActive /\ n = 1

\* C4 witness: the session went inactive once and a later input made it
\* active again.
C4_Witness ==
    \E i \in Live :
        /\ sessions[i].isActive
        /\ Cardinality(Recorded(sessions[i], "session_inactive")) = 1
        /\ lastInput >= InactivityDelay

\* C5: each milestone has at most one scroll_depth event, and has one exactly
\* when some processed sample was at or above it.
C5_MilestonesOnce ==
    \A i \in Live : \A k \in 1..Len(Milestones) :
        LET m == sessions[i]
            fired == {j \in Recorded(m, "scroll_depth") :
                         m.log[j].ev.percentage = Milestones[k]}
        IN /\ Cardinality(fired) <= 1
           /\ Cardinality(fired) = 1 <=>
                 \E s \in 1..Len(m.scrollSamples) :
                     scrollPercent(m.scrollSamples[s]) >= Milestones[k]

\* The percentages of the scroll_depth events of m, in the order recorded
RECURSIVE DepthsIn(_)
DepthsIn(log) ==
    IF log = <<>> THEN <<>>
    ELSE IF Last(log).ev.event = "scroll_depth"
         THEN Append(DepthsIn(SubSeq(log, 1, Len(log) - 1)), Last(log).ev.percentage)
         ELSE DepthsIn(SubSeq(log, 1, Len(log) - 1))

\* C5 witness: samples at 30%, 0% and 60% gave exactly the events 25 and 50.
C5_Witness ==
    \E i \in Live :
        /\ sessions[i].scrollSamples = <<600, 0, 1200>>
        /\ scrollPercent(600) = 30 /\ scrollPercent(1200) = 60
        /\ DepthsIn(sessions[i].log) = <<25, 50>>

----------------------------------------------------------------------------
(* The opt-out flag *)

\* C6: as long as enableAnalytics() has not been called, a page loaded with
\* the flag 'false' has no AnalyticsManager, trackAnalyticsEvent records
\* nothing, getAnalyticsSummary() is null and no collector call was made; a
\* page loaded with the key absent or any other value has its session.
C6_OptOut ==
    (page # "loading" /\ ~enableCalled) =>
        IF loadFlag = "false"
        THEN /\ sessions = <<>>
             /\ analytics = 0
             /\ trackAnalyticsEvent("theme_change", [theme |-> "dark"]) = sessions
             /\ getAnalyticsSummary = Null
        ELSE /\ Len(sessions) = 1
             /\ sessions[1].log[1].ev.event = "page_load"

\* C6 witness: the page has loaded with the flag 'false' and is in use.
C6_Witness ==
    /\ page = "ready" /\ loadFlag = "false" /\ ~enableCalled
    /\ localStorage = "false" /\ sessions = <<>>

\* C7 (as claimed): once disableAnalytics() has returned, and until
\* enableAnalytics() is called, the session records no event and makes no
\* collector call.
C7_DisabledSilent ==
    (analytics = 0 /\ localStorage = "false") =>
        \A i \in Live :
            sessions[i].disabledAt.log >= 0 =>
                /\ Len(sessions[i].log) = sessions[i].disabledAt.log
                /\ sessions[i].calls = sessions[i].disabledAt.calls

----------------------------------------------------------------------------
(* The engagement score *)

\* min(m, 10) * 10 + min(n, 50) * 2 + s * 20, rounded, for ms milliseconds
ClaimedScore(ms, n, s) ==
    RoundDiv(Min(ms, 600000), 6000) + Min(n, 50) * 2 + s * 20

\* C8 (as claimed): the score is that of the time elapsed, the events recorded
\* in the session and the distinct sections navigated to in the session.
C8_Score ==
    \A i \in Live :
        LET m == sessions[i]
            all == [j \in 1..Len(m.log) |-> m.log[j].ev]
        IN calculateEngagementScore(m, now) =
              ClaimedScore(now - m.startTime, Len(all), sectionsVisited(all))

----------------------------------------------------------------------------
(* The heatmap *)

\* the bucket (floor(x / 50), floor(y / 50)) as the key "gx,gy"
Bucket(x, y) == ToString(x \div 50) \o "," \o ToString(y \div 50)

\* C9: the heatmap has one bucket per cell sampled, no bucket twice, and each
\* bucket's counter is the number of samples that fell in its cell; the sample
\* (120, 80) is counted in bucket "2,1".
C9_Buckets ==
    \A i \in Live :
        LET m == sessions[i]
            hits(key) == {j \in 1..Len(m.mouseSamples) :
                             Bucket(m.mouseSamples[j][1], m.mouseSamples[j][2]) = key}
        IN /\ \A k \in 1..Len(m.heatmapData) :
                 m.heatmapData[k].count = Cardinality(hits(m.heatmapData[k].key))
           /\ \A k, l \in 1..Len(m.heatmapData) :
                 m.heatmapData[k].key = m.heatmapData[l].key => k = l
           /\ \A j \in 1..Len(m.mouseSamples) :
                 \E k \in 1..Len(m.heatmapData) :
                     m.heatmapData[k].key =
                         Bucket(m.mouseSamples[j][1], m.mouseSamples[j][2])
           /\ <<120, 80>> \in Range(m.mouseSamples) =>
                 \E k \in 1..Len(m.heatmapData) : m.heatmapData[k].key = "2,1"

\* C9 witness: (120, 80) was sampled twice and bucket "2,1" counts 2.
C9_Witness ==
    \E i \in Live :
        /\ Cardinality({j \in 1..Len(sessions[i].mouseSamples) :
                           sessions[i].mouseSamples[j] = <<120, 80>>}) = 2
        /\ \E k \in 1..Len(sessions[i].heatmapData) :
              sessions[i].heatmapData[k] = [key |-> "2,1", count |-> 2]

\* C10 (as claimed): there is one heatmap_data event per 20th distinct cell
\* (and none for samples in cells already known); it carries at most 5 cells
\* and no cell left out has a larger count than one carried.
C10_HeatmapEvents ==
    \A i \in Live :
        LET m == sessions[i]
            sent == Recorded(m, "heatmap_data")
        IN /\ Cardinality(sent) = Len(m.heatmapData) \div HeatmapEvery
           /\ \A j \in sent : Len(m.log[j].ev.hot_spots) <= HotSpots
           /\ (m.log # <<>> /\ Last(m.log).ev.event = "heatmap_data"
                 /\ Last(m.log).ev.timestamp = now) =>
                 LET spots == Last(m.log).ev.hot_spots
                     carried == {spots[k].position : k \in 1..Len(spots)}
                 IN \A k \in 1..Len(m.heatmapData) :
                       m.heatmapData[k].key \notin carried =>
                           \A c \in 1..Len(spots) :
                               m.heatmapData[k].count <= spots[c].count

----------------------------------------------------------------------------
(* Page unload *)

\* C11 (as claimed): once the page has unloaded, the last event of each session
\* is page_unload, its total_events is the number of events the session had
\* recorded before it, and a call whose body ends with it is in flight.
C11_UnloadTotals ==
    page = "unloaded" =>
        \A i \in Live :
            LET m == sessions[i]
                n == Len(m.log)
            IN /\ m.log[n].ev.event = "page_unload"
               /\ m.log[n].ev.total_events = n - 1
               /\ \E k \in 1..Len(m.inflight) : Last(m.inflight[k].events) = m.log[n].ev

----------------------------------------------------------------------------
(* SpecSummary: the session summary while the page is scrolled and clicked *)
(* and the collector answers the threshold flushes, in the order they were *)
(* started.                                                                *)

InitSummary ==
    InitWith({NoKey}, [NoLimits EXCEPT !.instances = 1, !.log = MaxLog,
                                       !.samples = SummarySamples,
                                       !.clock = SummaryTicks * ScrollStep])

NextSummary ==
    \/ DOMContentLoaded
    \/ \E y \in {600, 2000} : Scroll(y)
    \/ Click(PlainDiv)
    \/ Tick(ScrollStep)
    \/ \E i \in Live : ScrollTimerFires(i)
    \/ \E o \in Outcomes : Respond(1, 1, o)

SpecSummary == InitSummary /\ [][NextSummary]_vars

\* The greatest milestone among the scroll_depth events m has recorded (0 if none)
DeepestRecorded(m) ==
    LET depths == {m.log[j].ev.percentage : j \in Recorded(m, "scroll_depth")}
    IN IF depths = {} THEN 0 ELSE CHOOSE d \in depths : \A o \in depths : o <= d

\* C12 (as claimed): the scroll_depth of the session summary is the greatest
\* milestone the session has recorded a scroll_depth event for, flushed or not.
C12_SummaryScrollDepth ==
    \A i \in Live :
        getSessionSummary(sessions[i], now).scroll_depth = DeepestRecorded(sessions[i])

----------------------------------------------------------------------------
(* Form fields *)

\* Elements an 'input' event can come from
EmailInput == [tagName |-> "input", type |-> "email", name |-> "email", id |-> "contactEmail"]
MessageArea == [tagName |-> "textarea", type |-> "textarea", name |-> "", id |-> "message"]
TopicSelect == [tagName |-> "select", type |-> "select-one", name |-> "topic", id |-> "topic"]

\* What the field holds after the change
Texts == {"", "a", "hunter2"}

\* a plausible slip: the payload also carries the text
onInput_LeaksValue(m, el, value, t) ==
    IF el.tagName \in {"input", "textarea"}
    THEN trackEvent([m EXCEPT !.typed = Append(@, [el |-> el, value |-> value])],
             "form_interaction",
             [element_type |-> el.type,
              element_name |-> IF el.name # "" THEN el.name ELSE el.id,
              has_value |-> Len(value) > 0,
              value |-> value], t)
    ELSE m

\* the document 'input' listener
onInput(m, el, value, t) ==
    IF el.tagName \in {"input", "textarea"}
    THEN trackEvent([m EXCEPT !.typed = Append(@, [el |-> el, value |-> value])],
             "form_interaction",
             [element_type |-> el.type,
              element_name |-> IF el.name # "" THEN el.name ELSE el.id,
              has_value |-> Len(value) > 0], t)
    ELSE m

\* 'input' on el, which now holds `value`
Input(el, value) ==
    /\ Interactive
    /\ Room(1)
    /\ sessions' = [i \in Live |-> onInput(sessions[i], el, value, now)]
    /\ UNCHANGED <<localStorage, page, loadFlag, analytics, now, scrollY,
                   enableCalled, lastInput, limits, currentSection, chat>>

(* SpecInput: text typed into form fields, and events recorded by other   *)
(* scripts through trackAnalyticsEvent with payloads of their choosing.   *)

\* The id of some other session
OtherSessionId == generateSessionId(1, "zzzz")

\* Payloads handed to trackAnalyticsEvent
Payloads == {[theme |-> "dark"],
             [session_id |-> OtherSessionId, event |-> "page_load"]}

InitInput == InitWith({NoKey}, [NoLimits EXCEPT !.instances = 1, !.log = InputLog])

NextInput ==
    \/ DOMContentLoaded
    \/ \E el \in {EmailInput, MessageArea, TopicSelect} : \E v \in Texts : Input(el, v)
    \/ \E p \in Payloads : TrackAnalyticsEvent("theme_change", p)

SpecInput == InitInput /\ [][NextInput]_vars

\* The form_interaction events of m, in the order recorded
FormEvents(m) ==
    LET isForm(x) == x.name = "form_interaction"
        picked == SelectSeq(m.log, isForm)
    IN [k \in 1..Len(picked) |-> picked[k].ev]

\* An event without the fields that say when it was recorded
Timeless(e) == [f \in DOMAIN e \ {"timestamp", "seq"} |-> e[f]]

\* C13: a form_interaction event has, besides the envelope, exactly the fields
\* element_type, element_name and has_value, taken from the element and from
\* whether the text is empty; two changes of the same element whose texts
\* are both empty or both non-empty record the same event.
C13_NoTypedText ==
    \A i \in Live :
        LET m == sessions[i]
            fe == FormEvents(m)
        IN /\ Len(fe) = Len(m.typed)
           /\ \A k \in 1..Len(fe) :
                 /\ DOMAIN fe[k] = {"event", "session_id", "timestamp", "page_url", "seq",
                                    "element_type", "element_name", "has_value"}
                 /\ fe[k].element_type = m.typed[k].el.type
                 /\ fe[k].element_name \in {m.typed[k].el.name, m.typed[k].el.id}
                 /\ fe[k].has_value = (m.typed[k].value # "")
           /\ \A j, k \in 1..Len(fe) :
                 (/\ m.typed[j].el = m.typed[k].el
                  /\ (m.typed[j].value = "") = (m.typed[k].value = ""))
                    => Timeless(fe[j]) = Timeless(fe[k])

\* C13 witness: the same field was changed twice, to two different non-empty
\* texts, and once to the empty text.
C13_Witness ==
    \E i \in Live : \E j, k, l \in 1..Len(sessions[i].typed) :
        LET ty == sessions[i].typed
        IN /\ ty[j].el = EmailInput /\ ty[k].el = EmailInput /\ ty[l].el = EmailInput
           /\ ty[j].value = "a" /\ ty[k].value = "hunter2" /\ ty[l].value = ""
           /\ Len(FormEvents(sessions[i])) = Len(ty)

----------------------------------------------------------------------------
(* Order of the queue *)

\* The events of s are in the order they were recorded in, each as recorded by m
InOrder(m, s) ==
    /\ \A k \in 1..Len(s) : s[k] = m.log[s[k].seq].ev
    /\ \A j, k \in 1..Len(s) : j < k => s[j].seq < s[k].seq

C14_Ordered ==
    \A i \in Live :
        /\ InOrder(sessions[i], sessions[i].events)
        /\ \A k \in 1..Len(sessions[i].inflight) :
              InOrder(sessions[i], sessions[i].inflight[k].events)
        /\ \A b \in sessions[i].acked : InOrder(sessions[i], b.events)

C14_AppendOnly ==
    \A i \in Live :
        LET q == sessions[i].events
            r == sessions'[i].events
        IN r = <<>> \/ (Len(r) >= Len(q) /\ SubSeq(r, 1, Len(q)) = q)

\* C14: the queue and the body of every collector call list their events in
\* the order trackEvent was called, each event as it was recorded; a step
\* either empties the queue or leaves its entries in place and adds to its end.
C14_InsertionOrder == []C14_Ordered /\ [][C14_AppendOnly]_vars

\* C14 witness: a batch of ten events was acknowledged and a call carrying
\* eleven events is in flight.
C14_Witness ==
    \E i \in Live :
        /\ \E b \in sessions[i].acked : Len(b.events) = BatchSize
        /\ \E k \in 1..Len(sessions[i].inflight) :
              Len(sessions[i].inflight[k].events) = BatchSize + 1

----------------------------------------------------------------------------
(* Transport failures *)

----------------------------------------------------------------------------
(* Storage that cannot be read *)

\* JSON.parse of a stored string: 'true' and 'false' are JSON, a bare word
\* is a SyntaxError
JSONparse(itemStr) ==
    IF itemStr \in {"true", "false"} THEN [primitive |-> itemStr]
    ELSE [exception |-> "SyntaxError"]

\* item.f of a parsed item: a boolean has no properties
property(item, f) == IF f \in DOMAIN item /\ f # "primitive" THEN item[f] ELSE Undefined

\* Storage.get(key, defaultValue) of utils.js on a store holding `store` under key
StorageGet(store, defaultValue, t) ==
    LET itemStr == getItem(store)
    IN IF itemStr = Throws THEN defaultValue                    \* catch (e)
       ELSE IF itemStr \in {NoKey, ""} THEN defaultValue        \* if (!itemStr)
       ELSE LET item == JSONparse(itemStr)
            IN IF "exception" \in DOMAIN item THEN defaultValue \* catch (e)
               ELSE IF property(item, "expiration") # Undefined
                       /\ t > property(item, "expiration")
                    THEN defaultValue
                    ELSE property(item, "value")

(* SpecStorage: the opt-out flag in a browser where storage may be blocked. *)

InitStorage ==
    InitWith(FlagValues \cup {StorageDisabled},
             [NoLimits EXCEPT !.log = PrivacyLog, !.instances = MaxInstances])

NextStorage ==
    \/ DOMContentLoaded
    \/ Click(PlainDiv)
    \/ TrackAnalyticsEvent("theme_change", [theme |-> "dark"])
    \/ CollectorResponds
    \/ enableAnalytics
    \/ disableAnalytics

SpecStorage == InitStorage /\ [][NextStorage]_vars

\* C16 (as claimed): where reading storage throws, Storage.get gives back its
\* default value and the page that has loaded has its session.
C16_StorageFailure ==
    (page # "loading" /\ loadFlag = StorageDisabled) =>
        /\ \A d \in {"light", Null} : StorageGet(localStorage, d, now) = d
        /\ Len(sessions) = 1
        /\ analytics = 1

----------------------------------------------------------------------------
(* The 30-second ping *)

\* The number of session_ping events m has recorded
Pings(m) == Cardinality(Recorded(m, "session_ping"))

C17_Silent ==
    \A i \in Live :
        LET m == sessions[i] IN
        /\ \A j \in Recorded(m, "session_ping") :
              (m.log[j].ev.timestamp - m.startTime) % PingInterval = 0
        /\ ~m.isActive =>
              \E j \in Recorded(m, "session_inactive") :
                  \A k \in Recorded(m, "session_ping") : k < j

C17_Tick ==
    \A i \in Live :
        LET m == sessions[i]
            n == sessions'[i]
            ticked == m.pingAt # n.pingAt
        IN /\ Pings(n) = Pings(m) + (IF ticked /\ m.isActive THEN 1 ELSE 0)
           /\ ticked => now = m.pingAt

\* C17: session_ping events are recorded on the 30-second ticks only, one on
\* each tick that finds the session active and none on a tick that finds it
\* inactive; while the session is inactive its latest ping is older than its
\* session_inactive event.
C17_PingWhenActive == []C17_Silent /\ [][C17_Tick]_vars

\* C17 witness: a ping was recorded 60 s after a session_inactive event, so
\* the tick in between recorded nothing and pings resumed after an input.
C17_Witness ==
    \E i \in Live :
        \E j \in Recorded(sessions[i], "session_inactive") :
            \E k \in Recorded(sessions[i], "session_ping") :
                /\ j < k
                /\ sessions[i].log[k].ev.timestamp
                     = sessions[i].log[j].ev.timestamp + 2 * PingInterval
                /\ \A l \in Recorded(sessions[i], "session_ping") : l < j \/ l >= k

----------------------------------------------------------------------------
(* The envelope of an event *)

\* C18 (as claimed): every event a session has recorded carries that session's
\* id as session_id and the name trackEvent was given as event.
C18_Envelope ==
    \A i \in Live : \A j \in 1..Len(sessions[i].log) :
        /\ sessions[i].log[j].ev.session_id = sessions[i].sessionId
        /\ sessions[i].log[j].ev.event = sessions[i].log[j].name

----------------------------------------------------------------------------
(* Navigation links (main.js) *)

\* link.getAttribute('href').substring(1)
substring1(href) ==
    CASE href = "#about" -> "about"
      [] href = "#skills" -> "skills"
      [] OTHER -> ""

\* trackEvent(eventName, eventData) of main.js: window.trackAnalyticsEvent is
\* set by analytics.js, so the event is handed to it
mainTrackEvent(eventName, eventData) == trackAnalyticsEvent(eventName, eventData)

\* A click on a navigation link: the link's own listener (initializeNavigation)
\* runs first, then the click bubbles to the document, where every
\* AnalyticsManager constructed has its listener.
NavLinkClick(el) ==
    /\ Interactive
    /\ Room(3)
    /\ LET tracked == mainTrackEvent("navigation",
                          [section |-> substring1(el.href), from |-> currentSection])
       IN sessions' = [i \in Live |-> handleClick(tracked[i], el, now)]
    /\ currentSection' = substring1(el.href)
    /\ UNCHANGED <<localStorage, page, loadFlag, analytics, now, scrollY,
                   enableCalled, lastInput, limits, chat>>

(* SpecNav: clicks on the navigation links and elsewhere, and the collector's *)
(* answers to the threshold flushes.                                          *)

InitNav == InitWith({NoKey}, [NoLimits EXCEPT !.instances = 1, !.log = NavLog])

NextNav ==
    \/ DOMContentLoaded
    \/ \E el \in {NavAbout, NavSkills} : NavLinkClick(el)
    \/ Click(PlainDiv)
    \/ CollectorResponds

SpecNav == InitNav /\ [][NextNav]_vars

\* The navigation links m has recorded a click on
LinksClicked(m) ==
    {m.log[j].ev.element_text :
        j \in {c \in Recorded(m, "click") : m.log[c].ev.element_class = "nav-link"}}

\* C19 (as claimed): as long as nothing has been flushed, the number of
\* sections in the engagement score and in the summary is the number of
\* distinct navigation links the user has clicked.
C19_SectionsVisited ==
    \A i \in Live :
        LET m == sessions[i] IN
        (m.calls = 0 /\ Len(m.events) = Len(m.log)) =>
            /\ sectionsVisited(m.events) = Cardinality(LinksClicked(m))
            /\ getSessionSummary(m, now).sections_visited = Cardinality(LinksClicked(m))

----------------------------------------------------------------------------
(* The scroll debounce *)

C20_Pending ==
    \A i \in Live :
        sessions[i].scrollTimeout # NoTimer =>
            sessions[i].scrollTimeout = lastInput + ScrollDebounce

C20_Sample ==
    \A i \in Live :
        LET m == sessions[i]
            n == sessions'[i]
        IN Len(n.scrollSamples) # Len(m.scrollSamples) =>
              /\ Len(n.scrollSamples) = Len(m.scrollSamples) + 1
              /\ now >= lastInput + ScrollDebounce
              /\ Last(n.scrollSamples) = scrollY
              /\ n.scrollTimeout = NoTimer

\* C20: trackScrollDepth runs only when at least 250 ms have passed since the
\* latest scroll event; it then takes one sample, of the position the window
\* was last scrolled to, and no timer is left, so no further sample follows
\* until the window is scrolled again; a pending timer is always due 250 ms
\* after the latest scroll event.
C20_TrailingDebounce == []C20_Pending /\ [][C20_Sample]_vars

\* C20 witness: the window was scrolled away and back to the top within 125 ms
\* and the one sample taken, 250 ms after the second event, is of the top.
C20_Witness ==
    \E i \in Live :
        /\ sessions[i].scrollSamples = <<0>>
        /\ lastInput = ScrollStep
        /\ now = lastInput + ScrollDebounce

----------------------------------------------------------------------------
(* Delivery at most once *)

\* C22 (as claimed): no event is carried by two collector calls, be they in
\* flight or already answered 2xx.
C22_AtMostOnce ==
    \A i \in Live :
        LET m == sessions[i]
            sent == [k \in 1..Len(m.inflight) |-> Range(m.inflight[k].events)]
        IN /\ \A k, l \in 1..Len(sent) : k # l => sent[k] \cap sent[l] = {}
           /\ \A k \in 1..Len(sent) : \A b \in m.acked : sent[k] \cap Range(b.events) = {}

----------------------------------------------------------------------------
(* Order of the scroll milestones *)

\* C28: the milestones reached are downward-closed, and the scroll_depth
\* events of a session are recorded in strictly ascending order of milestone
\* (each sample's new milestones ascending, and above all earlier ones).
C28_MilestonesAscending ==
    \A i \in Live :
        LET m == sessions[i]
            depths == DepthsIn(m.log)
        IN /\ \A a \in m.scrollMilestones :
                 \A k \in 1..Len(Milestones) :
                     Milestones[k] < a => Milestones[k] \in m.scrollMilestones
           /\ \A j, k \in 1..Len(depths) : j < k => depths[j] < depths[k]
           /\ Range(depths) = m.scrollMilestones

\* C28 witness: one sample at 100% crossed the three milestones above 25 at
\* once, after an earlier sample had reached 25.
C28_Witness ==
    \E i \in Live :
        /\ sessions[i].scrollSamples = <<600, 2000>>
        /\ DepthsIn(sessions[i].log) = <<25, 50, 75, 100>>
        /\ sessions[i].log[Len(sessions[i].log)].ev.timestamp
             = sessions[i].log[Len(sessions[i].log) - 2].ev.timestamp

----------------------------------------------------------------------------
(* One capturing session *)

\* C30 (as claimed): whatever enableAnalytics and disableAnalytics calls came
\* before, one step of the page (one click, one call of another script) adds
\* events to at most one session.
C30_SingleCapture ==
    [][Cardinality({i \in Live : Len(sessions'[i].log) > Len(sessions[i].log)}) <= 1]_vars

----------------------------------------------------------------------------
(* The chat widget: handlers *)

\* The timers of the widget that are scheduled
ChatTimers == IF chat.script THEN {chat.timers[k].at : k \in 1..Len(chat.timers)} ELSE {}

\* No timer is due: the next task may be an input or a response
ChatInteractive == Interactive /\ \A d \in ChatTimers : ~Due(d)

\* The environment's bound: an input is offered only while chatHistory can
\* still take the k entries it may cause, with those the requests in flight
\* will cause
ChatRoom(k, bound) == Len(chat.chatHistory) + Len(chat.requests) + k <= bound

\* The callback of a timer
callback(c, timer, t) ==
    CASE timer.fn = "addChatMessage" -> addChatMessage(c, "ai", timer.arg, t)
      [] timer.fn = "addWelcomeMessage" -> addWelcomeMessage(c, t)
      [] timer.fn = "hide" -> [c EXCEPT !.panel = "none", !.fab = "flex"]

\* The timer the event loop runs next: due first, set first among equals
IsNext(k) ==
    /\ Due(chat.timers[k].at)
    /\ \A l \in 1..Len(chat.timers) :
          \/ chat.timers[l].at > chat.timers[k].at
          \/ chat.timers[l].at = chat.timers[k].at /\ l >= k

ChatTimerFires ==
    /\ page = "ready"
    /\ chat.script
    /\ \E k \in 1..Len(chat.timers) :
          /\ IsNext(k)
          /\ LET rest == [l \in 1..(Len(chat.timers) - 1) |->
                             IF l < k THEN chat.timers[l] ELSE chat.timers[l + 1]]
             IN chat' = callback([chat EXCEPT !.timers = rest], chat.timers[k], now)
    /\ UNCHANGED <<localStorage, page, loadFlag, analytics, sessions, now, scrollY,
                   enableCalled, lastInput, limits, currentSection>>

\* d milliseconds pass, none of them past a timer of the widget
ChatTick(d) ==
    /\ chat.script
    /\ \A due \in ChatTimers : now + d <= due
    /\ Tick(d)

\* a plausible slip: the toggle only ever opens
toggleChatMode_OnlyOpens(c, t) ==
    addChatMessage([c EXCEPT !.chatMode = "open", !.toggles = @ + 1], "ai",
                   "Switched to **Open Mode**", t)

\* toggleChatMode(), up to its trackEvent
toggleChatMode(c, t) ==
    LET mode == IF c.chatMode = "strict" THEN "open" ELSE "strict"
        modeMessage == IF mode = "strict" THEN "Switched to **Strict Mode**"
                                          ELSE "Switched to **Open Mode**"
    IN addChatMessage([c EXCEPT !.chatMode = mode, !.toggles = @ + 1], "ai",
                      modeMessage, t)

ToggleChatMode ==
    /\ ChatInteractive
    /\ chat.script
    /\ Room(1)
    /\ chat' = toggleChatMode(chat, now)
    /\ sessions' = mainTrackEvent("chat_mode_toggle",
                       [session |-> chat.chatSession, new_mode |-> chat'.chatMode])
    /\ UNCHANGED <<localStorage, page, loadFlag, analytics, now, scrollY,
                   enableCalled, lastInput, limits, currentSection>>

\* What the visitor types into #chatInput, and what other scripts send
ChatTexts == {"", "  ", "his work history", "hello"}

\* chatInput.value.trim()
trim(value) == IF value = "  " THEN "" ELSE value

\* messageLower.includes(word), on the messages above
includes(message, word) == <<message, word>> \in {<<"his work history", "work">>}

FallbackExperience == "Sai has 5+ years of AI/ML engineering experience!"
FallbackSkills == "Sai is a Python expert"
FallbackProjects == "Sai has worked on amazing projects"
FallbackEducation == "Sai is currently pursuing his Master's in AI"
FallbackPersonality == "Sai is naturally curious"
FallbackDefault == "That's a great question!"
TroubleText == "I'm having trouble processing that right now."

\* getFallbackResponse(message)
getFallbackResponse(message) ==
    IF includes(message, "experience") \/ includes(message, "work") \/ includes(message, "job")
    THEN FallbackExperience
    ELSE IF includes(message, "skill") \/ includes(message, "technology")
            \/ includes(message, "tools")
    THEN FallbackSkills
    ELSE IF includes(message, "project") \/ includes(message, "portfolio")
    THEN FallbackProjects
    ELSE IF includes(message, "education") \/ includes(message, "degree")
            \/ includes(message, "university")
    THEN FallbackEducation
    ELSE IF includes(message, "personality") \/ includes(message, "hobby")
            \/ includes(message, "interests")
    THEN FallbackPersonality
    ELSE FallbackDefault

\* showTypingIndicator(), the #chatMessages element present
showTypingIndicator(c) == IF c.isTyping THEN c ELSE [c EXCEPT !.isTyping = TRUE]

\* a plausible slip: the indicator is removed and the flag is left set
hideTypingIndicator_KeepsFlag(c) == c

\* hideTypingIndicator()
hideTypingIndicator(c) == [c EXCEPT !.isTyping = FALSE]

\* a plausible slip: the guard forgets the request in flight
accepts_IgnoresTyping(message, typing) == message # ""

\* the guard of sendMessage: `if (!message || isTyping) return;` negated
accepts(message, typing) == message # "" /\ ~typing

\* sendMessage() up to its first await: the guard, the user's entry, the
\* typing indicator and the call of fetch, whose body is built here
sendMessage(c, t, section) ==
    LET message == trim(c.value)
        body == [message |-> message, mode |-> c.chatMode,
                 context |-> [current_section |-> section],
                 session_id |-> c.chatSession]
        shown == showTypingIndicator(
                     addChatMessage([c EXCEPT !.value = ""], "user", message, t))
    IN IF accepts(message, c.isTyping)
       THEN [shown EXCEPT !.requests = Append(@, [message |-> message, body |-> body]),
                          !.sent = Append(@, [body |-> body, toggles |-> c.toggles])]
       ELSE [c EXCEPT !.refused = ~@]

\* sendChatMessage(message), the #chatInput element present
sendChatMessage(c, message, t, section) ==
    sendMessage([c EXCEPT !.value = message], t, section)

\* How a chat request ends: fetch or response.json() throws, or the body
\* parses to an object with these properties
ChatOutcomes ==
    {[kind |-> "throws", success |-> FALSE, response |-> Undefined],
     [kind |-> "json", success |-> FALSE, response |-> Undefined],
     [kind |-> "json", success |-> TRUE, response |-> Undefined],
     [kind |-> "json", success |-> TRUE, response |-> "He led the LLM work at Ericsson."]}

\* sendMessage() from the answer on, up to its trackEvent: the try block
\* after the awaits and the catch block.  With success true and a response
\* that is no string, addChatMessage throws in formatMessage, before the
\* entry is stored, and the catch block runs.
sendMessageResume(c, k, outcome, t) ==
    LET req == c.requests[k]
        rest == [l \in 1..(Len(c.requests) - 1) |->
                    IF l < k THEN c.requests[l] ELSE c.requests[l + 1]]
        c0 == [c EXCEPT !.requests = rest,
                        !.answered = Append(@, [outcome |-> outcome,
                                                message |-> req.message])]
        caught == addChatMessage(hideTypingIndicator(c0), "ai",
                                 getFallbackResponse(req.message), t)
    IN IF outcome.kind = "throws" THEN caught
       ELSE IF outcome.success
            THEN IF isString(outcome.response)
                 THEN addChatMessage(hideTypingIndicator(c0), "ai", outcome.response, t)
                 ELSE caught
            ELSE addChatMessage(hideTypingIndicator(c0), "ai", TroubleText, t)

\* 'input' on #chatInput, which now holds `value`: handleTypingIndicator only
\* styles the send button; the document listener of analytics.js sees it too
ChatInput == [tagName |-> "input", type |-> "text", name |-> "", id |-> "chatInput"]

TypeChat(value) ==
    /\ ChatInteractive
    /\ chat.script
    /\ Room(1)
    /\ chat.value # value
    /\ chat' = [chat EXCEPT !.value = value]
    /\ sessions' = [i \in Live |-> onInput(sessions[i], ChatInput, value, now)]
    /\ UNCHANGED <<localStorage, page, loadFlag, analytics, now, scrollY,
                   enableCalled, lastInput, limits, currentSection>>

SendBtn == [tagName |-> "button", className |-> "send-btn", id |-> "sendBtn",
            classList |-> {"send-btn"}, href |-> "", project |-> "", skill |-> "",
            textContent |-> ""]

\* A click on the send button: its listener calls sendMessage, then the click
\* bubbles to the document
SendBtnClick ==
    /\ ChatInteractive
    /\ chat.script
    /\ Room(1)
    /\ chat' = sendMessage(chat, now, currentSection)
    /\ sessions' = [i \in Live |-> handleClick(sessions[i], SendBtn, now)]
    /\ UNCHANGED <<localStorage, page, loadFlag, analytics, now, scrollY,
                   enableCalled, lastInput, limits, currentSection>>

\* window.chatbotApp.sendChatMessage(message), as suggestion buttons and
\* other scripts call it
SendChatMessage(message) ==
    /\ ChatInteractive
    /\ chat.script
    /\ chat' = sendChatMessage(chat, message, now, currentSection)
    /\ UNCHANGED <<localStorage, page, loadFlag, analytics, sessions, now, scrollY,
                   enableCalled, lastInput, limits, currentSection>>

\* The k-th request in flight ends with `outcome`; the two awaits of
\* sendMessage are one step, nothing is read between them
ChatResponds(k, outcome) ==
    /\ ChatInteractive
    /\ chat.script
    /\ k \in 1..Len(chat.requests)
    /\ chat' = sendMessageResume(chat, k, outcome, now)
    /\ sessions' = mainTrackEvent("chat_message",
                       [session |-> chat.chatSession, mode |-> chat.chatMode,
                        message_length |-> Len(chat.requests[k].message),
                        user_message |-> chat.requests[k].message])
    /\ UNCHANGED <<localStorage, page, loadFlag, analytics, now, scrollY,
                   enableCalled, lastInput, limits, currentSection>>

\* The page with the chat widget as the browser starts to load it
InitChatWith(flags, lim) ==
    /\ localStorage \in flags
    /\ page = "loading"
    /\ loadFlag = NoKey
    /\ analytics = 0
    /\ sessions = <<>>
    /\ now = 0
    /\ scrollY = 0
    /\ enableCalled = FALSE
    /\ lastInput = 0
    /\ limits = lim
    /\ currentSection = "home"
    /\ chat = chatbot

(* SpecChat: the mode toggle and the exchange of messages, over the first   *)
(* two welcome messages.                                                    *)

ChatLog == 5           \* SpecChat: entries of chatHistory
ChatToggles == 2       \* SpecChat: toggleChatMode calls
ChatClock == 1         \* SpecChat: length of the run, in welcome steps
ChatEvents == 2        \* SpecChat: events one analytics session records

InitChat ==
    InitChatWith({NoKey, "false"},
                 [NoLimits EXCEPT !.clock = ChatClock * WelcomeStep, !.log = ChatEvents])

NextChat ==
    \/ DOMContentLoaded
    \/ ChatTimerFires
    \/ ChatTick(WelcomeStep)
    \/ chat.toggles < ChatToggles /\ ChatRoom(1, ChatLog) /\ ToggleChatMode
    \/ \E v \in ChatTexts : TypeChat(v)
    \/ ChatRoom(2, ChatLog) /\ SendBtnClick
    \/ \E m \in ChatTexts \ {""} : ChatRoom(2, ChatLog) /\ SendChatMessage(m)
    \/ \E o \in ChatOutcomes : ChatResponds(1, o)

SpecChat == InitChat /\ [][NextChat]_vars

\* The mode after n calls of toggleChatMode
ModeAfter(n) == IF n % 2 = 0 THEN "strict" ELSE "open"

\* C21: the chat mode is always 'strict' or 'open'; it is 'strict' before the
\* first toggleChatMode call and each call flips it, so that it is 'strict'
\* after an even number of calls and 'open' after an odd number; and the body
\* of each chat request carries the mode that was current when sendMessage
\* was called, whatever is toggled while the request is in flight.
C21_ModeFlips ==
    /\ chat.chatMode \in {"strict", "open"}
    /\ chat.chatMode = ModeAfter(chat.toggles)
    /\ \A k \in 1..Len(chat.sent) :
          chat.sent[k].body.mode = ModeAfter(chat.sent[k].toggles)

\* two toggles, the second while a request sent in open mode is in flight
C21_Witness ==
    /\ chat.toggles = 2
    /\ chat.chatMode = "strict"
    /\ Len(chat.requests) = 1
    /\ chat.requests[1].body.mode = "open"

\* A step in which sendMessage was called: it returned at its guard or it
\* sent a request
SendMessageCalled == chat'.refused # chat.refused \/ Len(chat'.sent) # Len(chat.sent)

C23_Refused ==
    chat.script /\ chat.isTyping /\ SendMessageCalled
        => /\ chat'.sent = chat.sent
           /\ chat'.requests = chat.requests
           /\ chat'.chatHistory = chat.chatHistory

\* C23: at most one chat request is in flight at any time, and isTyping is
\* true while it is; a call of sendMessage or sendChatMessage made while
\* isTyping is true sends no request and appends nothing to chatHistory.
C23_OneInFlight ==
    /\ [](Len(chat.requests) <= 1 /\ (Len(chat.requests) = 1 => chat.isTyping))
    /\ [][C23_Refused]_vars

\* sendChatMessage was called while a request was in flight: its text is left
\* in the input, no second request was sent
C23_Witness ==
    /\ chat.isTyping
    /\ Len(chat.requests) = 1
    /\ chat.refused
    /\ chat.value = "hello"
    /\ Len(chat.sent) = 1

\* The text of the 'ai' entry the outcome of a request for `message` calls for
AnswerFor(outcome, message) ==
    IF outcome.kind = "throws" THEN getFallbackResponse(message)
    ELSE IF ~outcome.success THEN TroubleText
    ELSE IF outcome.response # Undefined THEN outcome.response
    ELSE getFallbackResponse(message)

C24_Resolved ==
    chat.script /\ Len(chat'.answered) > Len(chat.answered)
        => /\ chat.isTyping
           /\ ~chat'.isTyping
           /\ chat'.requests = <<>>
           /\ chat'.chatHistory =
                 Append(chat.chatHistory,
                        [sender |-> "ai",
                         message |-> AnswerFor(Last(chat'.answered).outcome,
                                               Last(chat'.answered).message),
                         timestamp |-> now])

\* C24: an accepted sendMessage stores the user's entry and enters the typing
\* state; when its request ends, in each of the three outcomes (success true,
\* success false, fetch or JSON parsing throws) isTyping is reset to false and
\* exactly one 'ai' entry is appended to chatHistory, the fallback text for
\* the user's message when the request throws; and the typing state is held
\* only while a request is in flight.
C24_LeavesTyping ==
    /\ [](chat.isTyping <=> Len(chat.requests) = 1)
    /\ [][C24_Resolved]_vars
    /\ [][chat.script /\ Len(chat'.sent) > Len(chat.sent)
            => /\ chat'.isTyping
               /\ chat'.chatHistory =
                     Append(chat.chatHistory,
                            [sender |-> "user", message |-> Last(chat'.sent).body.message,
                             timestamp |-> now])]_vars

\* a request that threw was answered with the fallback text for its message,
\* right after the user's entry
C24_Witness ==
    /\ ~chat.isTyping
    /\ Len(chat.answered) = 1
    /\ chat.answered[1].outcome.kind = "throws"
    /\ Len(chat.chatHistory) >= 2
    /\ Last(chat.chatHistory).sender = "ai"
    /\ Last(chat.chatHistory).message = FallbackExperience
    /\ chat.chatHistory[Len(chat.chatHistory) - 1].sender = "user"

----------------------------------------------------------------------------
(* The chat panel and the floating action button *)

\* openChatBot(), the #chatbot and #chatFab elements present, up to its trackEvent
openChatBot(c) == [c EXCEPT !.panel = "flex", !.fab = "none", !.lastOp = "open"]

\* a plausible slip: the panel is hidden at once and the button is forgotten
closeChat_LeavesFab(c, t) == [c EXCEPT !.panel = "none", !.lastOp = "close"]

\* closeChat(), up to its trackEvent: the panel fades now and is hidden later
closeChat(c, t) == setTimeout([c EXCEPT !.lastOp = "close"], "hide", "", CloseDelay, t)

\* minimizeChat(), up to its trackEvent
minimizeChat(c) == [c EXCEPT !.panel = "none", !.fab = "flex", !.lastOp = "minimize"]

\* Ctrl/Cmd+K, a click on the floating action button, or another script
OpenChatBot ==
    /\ ChatInteractive
    /\ chat.script
    /\ Room(1)
    /\ chat' = openChatBot(chat)
    /\ sessions' = mainTrackEvent("chatbot_open",
                       [session |-> chat.chatSession, mode |-> chat.chatMode])
    /\ UNCHANGED <<localStorage, page, loadFlag, analytics, now, scrollY,
                   enableCalled, lastInput, limits, currentSection>>

\* Escape, or the close button of the panel
CloseChat ==
    /\ ChatInteractive
    /\ chat.script
    /\ Room(1)
    /\ chat' = closeChat(chat, now)
    /\ sessions' = mainTrackEvent("chatbot_close",
                       [session |-> chat.chatSession,
                        messages_sent |-> Cardinality({k \in 1..Len(chat.chatHistory) :
                                             chat.chatHistory[k].sender = "user"})])
    /\ UNCHANGED <<localStorage, page, loadFlag, analytics, now, scrollY,
                   enableCalled, lastInput, limits, currentSection>>

MinimizeChat ==
    /\ ChatInteractive
    /\ chat.script
    /\ Room(1)
    /\ chat' = minimizeChat(chat)
    /\ sessions' = mainTrackEvent("chatbot_minimize", [session |-> chat.chatSession])
    /\ UNCHANGED <<localStorage, page, loadFlag, analytics, now, scrollY,
                   enableCalled, lastInput, limits, currentSection>>

(* SpecPanel: the panel opened, closed and minimized, a few times within   *)
(* the delay of closeChat and after it.                                    *)

PanelTicks == 8        \* SpecPanel: length of the run, in steps of PanelStep
PanelTimers == 2       \* SpecPanel: closeChat callbacks pending at once
PanelEvents == 3       \* SpecPanel: events one analytics session records
PanelStep == CloseDelay \div 3

\* The callbacks of closeChat that are pending
Hides == {k \in 1..Len(chat.timers) : chat.timers[k].fn = "hide"}

InitPanel ==
    InitChatWith({NoKey, "false"},
                 [NoLimits EXCEPT !.clock = PanelTicks * PanelStep, !.log = PanelEvents])

NextPanel ==
    \/ DOMContentLoaded
    \/ ChatTimerFires
    \/ ChatTick(PanelStep)
    \/ OpenChatBot
    \/ Cardinality(Hides) < PanelTimers /\ CloseChat
    \/ MinimizeChat

SpecPanel == InitPanel /\ [][NextPanel]_vars

\* C25: in every state, whatever the interleaving of openChatBot, closeChat,
\* minimizeChat and the delayed callbacks of closeChat, exactly one of the
\* chat panel and the floating action button is displayed.
C25_ExactlyOne ==
    chat.script => \/ chat.panel = "flex" /\ chat.fab = "none"
                   \/ chat.panel = "none" /\ chat.fab = "flex"

\* the panel was reopened while a callback of closeChat was pending, and the
\* callback has run
C25_Witness ==
    /\ chat.lastOp = "open"
    /\ Hides = {}
    /\ chat.panel = "none"
    /\ chat.fab = "flex"

\* C26: if openChatBot is the last of the open / close / minimize operations
\* called, then once the pending callbacks of closeChat have run the panel is
\* displayed and the floating action button is hidden.
C26_OpenWins ==
    chat.script /\ chat.lastOp = "open" /\ Hides = {}
        => chat.panel = "flex" /\ chat.fab = "none"

----------------------------------------------------------------------------
(* Clearing the conversation *)

\* clearChatHistory(), up to its trackEvent
clearChatHistory(c, t) ==
    setTimeout([c EXCEPT !.chatHistory = <<>>, !.clears = @ + 1],
               "addWelcomeMessage", "", ClearDelay, t)

ClearChatHistory ==
    /\ ChatInteractive
    /\ chat.script
    /\ Room(1)
    /\ chat' = clearChatHistory(chat, now)
    /\ sessions' = mainTrackEvent("chat_clear", [session |-> chat.chatSession])
    /\ UNCHANGED <<localStorage, page, loadFlag, analytics, now, scrollY,
                   enableCalled, lastInput, limits, currentSection>>

(* SpecWelcome: the welcome sequence of the page load and the conversation *)
(* cleared during it or after it, with no other input.                     *)

WelcomeTicks == 10     \* SpecWelcome: length of the run, in steps of ClearDelay
WelcomeClears == 1     \* SpecWelcome: clearChatHistory calls
WelcomeEvents == 2     \* SpecWelcome: events one analytics session records

InitWelcome ==
    InitChatWith({NoKey, "false"},
                 [NoLimits EXCEPT !.clock = WelcomeTicks * ClearDelay,
                                  !.log = WelcomeEvents])

NextWelcome ==
    \/ DOMContentLoaded
    \/ ChatTimerFires
    \/ ChatTick(ClearDelay)
    \/ chat.clears < WelcomeClears /\ ClearChatHistory

SpecWelcome == InitWelcome /\ [][NextWelcome]_vars

\* The messages of chatHistory, in order
Messages(h) == [k \in 1..Len(h) |-> h[k].message]

\* C27: after clearChatHistory, once every timer has fired and nothing else
\* was done, chatHistory holds exactly the four welcome messages, each once
\* and in order.
C27_WelcomeOnce ==
    chat.script /\ chat.clears > 0 /\ chat.timers = <<>>
        => Messages(chat.chatHistory) = WelcomeMessages

----------------------------------------------------------------------------
(* Resizing the chat panel (makeChatbotResizable) *)

\* parseInt(getComputedStyle(chatbot).width, 10) and .height: the size the
\* stylesheet gives, or the one handleMouseMove has set
computedWidth(c) == c.width
computedHeight(c) == c.height

\* newWidth >= minWidth && newWidth <= window.innerWidth * 0.8
widthAllowed(w) == w >= MinWidth /\ 10 * w <= 8 * Viewport.innerWidth

\* newHeight >= minHeight && newHeight <= window.innerHeight * 0.8
heightAllowed(h) == h >= MinHeight /\ 10 * h <= 8 * Viewport.innerHeight

\* the 'mousedown' listener of the resize handle
resizeMouseDown(c, e) ==
    [c EXCEPT !.isResizing = TRUE, !.startX = e.clientX, !.startY = e.clientY,
              !.startWidth = computedWidth(c), !.startHeight = computedHeight(c),
              !.listening = TRUE, !.pointer = e, !.drags = @ + 1]

\* a plausible slip: an out-of-range dimension is clamped to the bound
handleMouseMove_Clamps(c, e) ==
    IF ~c.isResizing THEN c
    ELSE LET newWidth == c.startWidth + (e.clientX - c.startX)
             newHeight == c.startHeight + (e.clientY - c.startY)
         IN [c EXCEPT !.width = IF widthAllowed(newWidth) THEN newWidth
                                 ELSE IF newWidth < MinWidth THEN MinWidth
                                 ELSE (8 * Viewport.innerWidth) \div 10,
                      !.height = IF heightAllowed(newHeight) THEN newHeight
                                  ELSE IF newHeight < MinHeight THEN MinHeight
                                  ELSE (8 * Viewport.innerHeight) \div 10]

\* handleMouseMove(e)
handleMouseMove(c, e) ==
    IF ~c.isResizing THEN c
    ELSE LET newWidth == c.startWidth + (e.clientX - c.startX)
             newHeight == c.startHeight + (e.clientY - c.startY)
         IN [c EXCEPT !.width = IF widthAllowed(newWidth) THEN newWidth ELSE @,
                      !.height = IF heightAllowed(newHeight) THEN newHeight ELSE @]

\* stopResize()
stopResize(c) == [c EXCEPT !.isResizing = FALSE, !.listening = FALSE]

\* 'mousedown' on the resize handle at e; it bubbles to the document, where
\* it counts as activity for analytics.js
ResizeMouseDown(e) ==
    /\ ChatInteractive
    /\ chat.script
    /\ chat' = resizeMouseDown(chat, e)
    /\ sessions' = [i \in Live |-> resetInactivityTimer(sessions[i], now)]
    /\ lastInput' = now
    /\ UNCHANGED <<localStorage, page, loadFlag, analytics, now, scrollY,
                   enableCalled, limits, currentSection>>

\* 'mousemove' on the document at e: handleMouseMove while it is registered,
\* and the listeners of analytics.js
ResizeMouseMove(e) ==
    /\ ChatInteractive
    /\ chat.script
    /\ LET moved == [chat EXCEPT !.pointer = e, !.moves = ~@]
       IN chat' = IF chat.listening THEN handleMouseMove(moved, e) ELSE moved
    /\ sessions' = [i \in Live |->
                       onMouseMove(resetInactivityTimer(sessions[i], now),
                                   e.clientX, e.clientY, now)]
    /\ lastInput' = now
    /\ UNCHANGED <<localStorage, page, loadFlag, analytics, now, scrollY,
                   enableCalled, limits, currentSection>>

\* 'mouseup' on the document: stopResize while it is registered
ResizeMouseUp ==
    /\ ChatInteractive
    /\ chat.script
    /\ chat' = IF chat.listening THEN stopResize(chat) ELSE chat
    /\ UNCHANGED <<localStorage, page, loadFlag, analytics, sessions, now, scrollY,
                   enableCalled, lastInput, limits, currentSection>>

(* SpecResize: the handle dragged to positions inside and outside the     *)
(* allowed sizes, released, and the mouse moved on.                        *)

ResizeDrags == 2       \* SpecResize: drags of the resize handle

\* Where the mouse goes
Points ==
    {[clientX |-> 500, clientY |-> 500], [clientX |-> 400, clientY |-> 380],
     [clientX |-> 420, clientY |-> 400], [clientX |-> 600, clientY |-> 300],
     [clientX |-> 920, clientY |-> 640], [clientX |-> 950, clientY |-> 600],
     [clientX |-> 930, clientY |-> 800]}

InitResize == InitChatWith({NoKey, "false"}, NoLimits)

NextResize ==
    \/ DOMContentLoaded
    \/ ChatTimerFires
    \/ \E e \in Points : chat.drags < ResizeDrags /\ ResizeMouseDown(e)
    \/ \E e \in Points : ResizeMouseMove(e)
    \/ ResizeMouseUp

SpecResize == InitResize /\ [][NextResize]_vars

\* What a 'mousemove' at the new pointer position must do to a dimension:
\* apply the dragged value if it is allowed, else keep the previous one
Dragged(start, from, to) == start + (to - from)

C29_Move ==
    chat.script /\ chat'.moves # chat.moves
        => IF chat.isResizing
           THEN LET w == Dragged(chat.startWidth, chat.startX, chat'.pointer.clientX)
                    h == Dragged(chat.startHeight, chat.startY, chat'.pointer.clientY)
                IN /\ chat'.width = IF w >= 300 /\ 10 * w <= 8 * Viewport.innerWidth
                                    THEN w ELSE chat.width
                   /\ chat'.height = IF h >= 400 /\ 10 * h <= 8 * Viewport.innerHeight
                                     THEN h ELSE chat.height
           ELSE chat'.width = chat.width /\ chat'.height = chat.height

C29_OnlyMoves ==
    chat.script /\ (chat'.width # chat.width \/ chat'.height # chat.height)
        => chat'.moves # chat.moves /\ chat.isResizing

\* C29: while the panel is resized by dragging, a mouse move applies the
\* dragged width if and only if it lies in [300, 0.8 * viewport width] and
\* the dragged height if and only if it lies in [400, 0.8 * viewport height],
\* each on its own; a dimension out of range keeps its previous value (it is
\* not set to the bound); after mouseup mouse moves change neither, and
\* nothing but a mouse move during a drag changes them; so both dimensions
\* are always in range.
C29_ResizeInRange ==
    /\ [](chat.script => /\ chat.width >= 300 /\ 10 * chat.width <= 8 * Viewport.innerWidth
                         /\ chat.height >= 400 /\ 10 * chat.height <= 8 * Viewport.innerHeight)
    /\ [][C29_Move]_vars
    /\ [][C29_OnlyMoves]_vars

\* during a drag from (500, 500) at 380 x 500 the mouse is at (600, 300): the
\* width was applied and the height, out of range, kept its value
C29_Witness ==
    /\ chat.isResizing
    /\ chat.startWidth = 380 /\ chat.startHeight = 500
    /\ chat.startX = 500 /\ chat.startY = 500
    /\ chat.pointer = [clientX |-> 600, clientY |-> 300]
    /\ chat.width = 480
    /\ chat.height = 500

====
